---- MODULE Spec2Model ----
(***************************************************************************)
(* A model of sparqlx: the SPARQLWrapper facade (query, aquery, update,    *)
(* aupdate, the streaming and batch operations, the context-manager        *)
(* protocol), its ClientManager, the operation-parameter builder and the   *)
(* response converters.                                                    *)
(***************************************************************************)
EXTENDS Integers, Sequences, FiniteSets, TLC

\* ------------------------------------------------------------------------
\* Bounds of the model
\* ------------------------------------------------------------------------
MaxCalls == 1
MaxBatch == 2
MaxChunks == 2
MaxRows == 2

\* Python's None, as a request option, a handle slot and a result
None == "None"
NoHandle == 0
NoResult == [kind |-> "None"]

\* ------------------------------------------------------------------------
\* utils.py: MIME type maps and the query operation parameters
\* ------------------------------------------------------------------------
bindings_format_map ==
    [k \in {"json", "xml", "csv", "tsv"} |->
        CASE k = "json" -> "application/sparql-results+json"
          [] k = "xml" -> "application/sparql-results+xml"
          [] k = "csv" -> "text/csv"
          [] k = "tsv" -> "text/tab-separated-values"]

graph_format_map ==
    [k \in {"turtle", "xml", "ntriples", "json-ld"} |->
        CASE k = "turtle" -> "text/turtle"
          [] k = "xml" -> "application/rdf+xml"
          [] k = "ntriples" -> "application/n-triples"
          [] k = "json-ld" -> "application/ld+json"]

\* A map without __missing__: a key that is not in the map has no value
MimeTypeMapNoFallback(map, key) == IF key \in DOMAIN map THEN map[key] ELSE None

\* MimeTypeMap.__missing__: a key that is not in the map is its own value
MimeTypeMap(map, key) == IF key \in DOMAIN map THEN map[key] ELSE key

\* `x or default` that keeps x whatever it is
OrDefaultKeepsNone(x, default) == x

\* Python's `x or default` on an optional string
OrDefault(x, default) == IF x = None \/ x = "" THEN default ELSE x

QueryTypes == {"SelectQuery", "AskQuery", "ConstructQuery", "DescribeQuery"}

\* A query text is modelled by what prepareQuery makes of it: the name of its
\* algebra, or "Invalid" when the text does not parse.
QueryTexts == QueryTypes \cup {"Invalid"}

JsonMimeTypes == {"application/json", "application/sparql-results+json"}

ConvertErrorMsg ==
    "JSON response format required for convert=True on SELECT and ASK query results."

\* response_format with the JSON test written against one MIME type only
response_format_one_json(query_type, convert, fmt) ==
    IF query_type \in {"SelectQuery", "AskQuery"}
    THEN LET rf == MimeTypeMap(bindings_format_map, OrDefault(fmt, "json"))
         IN IF convert /\ rf # "application/sparql-results+json"
            THEN [err |-> "ValueError", msg |-> ConvertErrorMsg, value |-> None]
            ELSE [err |-> "none", msg |-> "", value |-> rf]
    ELSE IF query_type \in {"DescribeQuery", "ConstructQuery"}
    THEN [err |-> "none", msg |-> "",
          value |-> MimeTypeMap(graph_format_map, OrDefault(fmt, "turtle"))]
    ELSE [err |-> "ValueError", msg |-> "Unsupported query type", value |-> None]

\* QueryOperationParameters.response_format: [err, value]
response_format(query_type, convert, fmt) ==
    IF query_type \in {"SelectQuery", "AskQuery"}
    THEN LET rf == MimeTypeMap(bindings_format_map, OrDefault(fmt, "json"))
         IN IF convert /\ rf \notin JsonMimeTypes
            THEN [err |-> "ValueError", msg |-> ConvertErrorMsg, value |-> None]
            ELSE [err |-> "none", msg |-> "", value |-> rf]
    ELSE IF query_type \in {"DescribeQuery", "ConstructQuery"}
    THEN [err |-> "none", msg |-> "",
          value |-> MimeTypeMap(graph_format_map, OrDefault(fmt, "turtle"))]
    ELSE [err |-> "ValueError", msg |-> "Unsupported query type", value |-> None]

\* converter that takes an Ask result for a binding set
converter_bindings_for_ask(query_type) ==
    CASE query_type \in {"SelectQuery", "AskQuery"} -> "_convert_bindings"
      [] query_type \in {"DescribeQuery", "ConstructQuery"} -> "_convert_graph"
      [] OTHER -> "ValueError"

\* QueryOperationParameters.converter
converter(query_type) ==
    CASE query_type = "SelectQuery" -> "_convert_bindings"
      [] query_type = "AskQuery" -> "_convert_ask"
      [] query_type \in {"DescribeQuery", "ConstructQuery"} -> "_convert_graph"
      [] OTHER -> "ValueError"

\* QueryOperationParameters.__init__: prepareQuery raises on text that does not
\* parse; the Accept header is computed from response_format, which raises the
\* format/convert mismatch.
QueryOperationParameters(query, convert, fmt) ==
    IF query = "Invalid"
    THEN [err |-> "ParseException", msg |-> "", accept |-> None, query_type |-> None]
    ELSE LET rf == response_format(query, convert, fmt)
         IN [err |-> rf.err, msg |-> rf.msg, accept |-> rf.value, query_type |-> query]

\* UpdateOperationParameters.__init__ never raises
UpdateOperationParameters(update_request) ==
    [err |-> "none", msg |-> "", accept |-> None, query_type |-> None]

\* ------------------------------------------------------------------------
\* utils.py: the request data of an operation
\* ------------------------------------------------------------------------
\* A keyword name is the sequence of its characters; a value is None, a
\* string or a list of strings.
kw_query == <<"q", "u", "e", "r", "y">>
kw_update == <<"u", "p", "d", "a", "t", "e">>
kw_version == <<"v", "e", "r", "s", "i", "o", "n">>
kw_default_graph_uri ==
    <<"d", "e", "f", "a", "u", "l", "t", "_",
      "g", "r", "a", "p", "h", "_", "u", "r", "i">>
kw_named_graph_uri ==
    <<"n", "a", "m", "e", "d", "_", "g",
      "r", "a", "p", "h", "_", "u", "r", "i">>
kw_using_graph_uri ==
    <<"u", "s", "i", "n", "g", "_", "g",
      "r", "a", "p", "h", "_", "u", "r", "i">>
kw_using_named_graph_uri ==
    <<"u", "s", "i", "n", "g", "_", "n", "a", "m", "e",
      "d", "_", "g", "r", "a", "p", "h", "_", "u", "r", "i">>

NoneValue == [kind |-> "None"]
Str(s) == [kind |-> "str", s |-> s]
List(items) == [kind |-> "list", items |-> items]

\* str.replace(old, new) for one-character old and new
Replace(s, old, new) == [i \in DOMAIN s |-> IF s[i] = old THEN new ELSE s[i]]

RECURSIVE SPARQLOperationDataMapKeepsNone(_)
\* SPARQLOperationDataMap that keeps the keywords whose value is None
SPARQLOperationDataMapKeepsNone(kwargs) ==
    IF kwargs = <<>> THEN <<>>
    ELSE <<[k |-> Replace(Head(kwargs).k, "_", "-"), v |-> Head(kwargs).v]>>
         \o SPARQLOperationDataMapKeepsNone(Tail(kwargs))

RECURSIVE SPARQLOperationDataMap(_)
\* SPARQLOperationDataMap.__init__: the dict, in keyword order, of the
\* keywords whose value is not None, underscores replaced by hyphens
SPARQLOperationDataMap(kwargs) ==
    IF kwargs = <<>> THEN <<>>
    ELSE (IF Head(kwargs).v.kind # "None"
          THEN <<[k |-> Replace(Head(kwargs).k, "_", "-"), v |-> Head(kwargs).v]>>
          ELSE <<>>)
         \o SPARQLOperationDataMap(Tail(kwargs))

\* QueryOperationParameters.data
QueryData(query, version, default_graph_uri, named_graph_uri) ==
    SPARQLOperationDataMap(
        <<[k |-> kw_query, v |-> query], [k |-> kw_version, v |-> version],
          [k |-> kw_default_graph_uri, v |-> default_graph_uri],
          [k |-> kw_named_graph_uri, v |-> named_graph_uri]>>)

\* UpdateOperationParameters.data
UpdateData(update_request, version, using_graph_uri, using_named_graph_uri) ==
    SPARQLOperationDataMap(
        <<[k |-> kw_update, v |-> update_request], [k |-> kw_version, v |-> version],
          [k |-> kw_using_graph_uri, v |-> using_graph_uri],
          [k |-> kw_using_named_graph_uri, v |-> using_named_graph_uri]>>)

\* the pairs of a list value, last element first
PairsOfReversed(key, items) ==
    [i \in DOMAIN items |-> [k |-> key, s |-> items[Len(items) + 1 - i]]]

\* the pairs httpx makes of one key of the data: one per element of a list,
\* in the list's order
PairsOf(key, items) == [i \in DOMAIN items |-> [k |-> key, s |-> items[i]]]

RECURSIVE FormEncode(_)
\* client.post(data=params.data): httpx encodes the dict as a form, a list
\* value as one pair per element and any other value as one pair, None as
\* the empty string
FormEncode(data) ==
    IF data = <<>> THEN <<>>
    ELSE (IF Head(data).v.kind = "list"
          THEN PairsOf(Head(data).k, Head(data).v.items)
          ELSE <<[k |-> Head(data).k,
                  s |-> IF Head(data).v.kind = "None" THEN "" ELSE Head(data).v.s]>>)
         \o FormEncode(Tail(data))

\* ------------------------------------------------------------------------
\* converters.py: the binding-set converter
\* ------------------------------------------------------------------------
\* the marker of a variable without a term in a row (Python's None)
Unbound == [kind |-> "None"]

\* the set of elements of a sequence
Range(seq) == {seq[i] : i \in DOMAIN seq}

XsdInteger == "http://www.w3.org/2001/XMLSchema#integer"

\* Python values: an int, a decimal.Decimal (its digits and exponent), a
\* datetime.date
PyInt(n) == [kind |-> "int", n |-> n]

\* rdflib's conversions from a lexical form to a Python value, by datatype,
\* on the lexical forms that are valid for the datatype: int(lexical),
\* Decimal(lexical), the ISO date. There is none for xsd:gYear.
XSDToPython ==
    [datatype \in {XsdInteger, "http://www.w3.org/2001/XMLSchema#decimal",
                   "http://www.w3.org/2001/XMLSchema#date"} |->
        CASE datatype = XsdInteger ->
               ("1" :> PyInt(1)) @@ ("2" :> PyInt(2)) @@ ("3" :> PyInt(3)) @@
               ("4" :> PyInt(4)) @@ ("04" :> PyInt(4))
          [] datatype = "http://www.w3.org/2001/XMLSchema#decimal" ->
               ("2.2" :> [kind |-> "Decimal", digits |-> 22, exponent |-> -1])
          [] datatype = "http://www.w3.org/2001/XMLSchema#date" ->
               ("2024-01-01" :> [kind |-> "date", year |-> 2024, month |-> 1,
                                 day |-> 1])]

\* dict.get(key, None) on a JSON object
Get(object, key) == IF key \in DOMAIN object THEN object[key] ELSE None

\* Literal(value, datatype=datatype).toPython(): the string of a plain
\* literal, the Python value of a literal whose datatype rdflib converts and
\* whose lexical form is valid, and otherwise the Literal itself
toPython(value, datatype) ==
    IF datatype = None THEN [kind |-> "str", value |-> value]
    ELSE IF datatype \in DOMAIN XSDToPython /\ value \in DOMAIN XSDToPython[datatype]
    THEN XSDToPython[datatype][value]
    ELSE [kind |-> "Literal", value |-> value, datatype |-> datatype]

\* one term of a binding to its Python value; a type other than uri, literal
\* and bnode hits `assert False` (the interpreter runs with assertions on)
BindingValue(term) ==
    CASE term.type = "uri" -> [kind |-> "URIRef", value |-> term.value]
      [] term.type = "literal" -> toPython(term.value, Get(term, "datatype"))
      [] term.type = "bnode" -> [kind |-> "BNode", value |-> term.value]
      [] OTHER -> [kind |-> "AssertionError", value |-> term.value]

\* dict(_get_binding_pairs(binding)): one pair per declared variable, None for
\* a variable the binding has no term for
_get_binding_pairs(variables, binding) ==
    [var \in Range(variables) |->
        IF var \notin DOMAIN binding THEN Unbound ELSE BindingValue(binding[var])]

\* The body of a response by its shape: bytes that are not JSON, a JSON
\* value that is not an object, an object without one of the keys read, or
\* ("ok") an object with head.vars and results.bindings. What the body makes
\* response.json() or the subscriptions raise, and the key the error names.
BodyError(shape) ==
    CASE shape = "not_json" -> [err |-> "JSONDecodeError", named |-> None]
      [] shape = "array" -> [err |-> "TypeError", named |-> None]
      [] shape = "no_head" -> [err |-> "KeyError", named |-> "head"]
      [] shape = "null_head" -> [err |-> "TypeError", named |-> None]
      [] shape = "no_vars" -> [err |-> "KeyError", named |-> "vars"]
      [] shape = "no_results" -> [err |-> "KeyError", named |-> "results"]
      [] shape = "no_bindings" -> [err |-> "KeyError", named |-> "bindings"]
      [] OTHER -> [err |-> "none", named |-> None]

\* _convert_bindings that returns the rows last to first
_convert_bindings_reversed(payload) ==
    LET variables == payload.vars
        response_bindings == payload.bindings
        n == Len(response_bindings)
        rows == [i \in DOMAIN response_bindings |->
                    _get_binding_pairs(variables, response_bindings[n + 1 - i])]
    IN IF BodyError(payload.shape).err # "none"
       THEN [err |-> BodyError(payload.shape).err, rows |-> <<>>,
             named |-> BodyError(payload.shape).named]
       ELSE IF \E i \in DOMAIN rows : \E var \in DOMAIN rows[i] :
              rows[i][var].kind = "AssertionError"
       THEN [err |-> "AssertionError", rows |-> <<>>, named |-> None]
       ELSE [err |-> "none", rows |-> rows, named |-> None]

\* _convert_bindings: the error of a body that is not JSON or lacks a key
\* read, and otherwise the list of the rows' dicts, unless a term's type is
\* not known
_convert_bindings(payload) ==
    LET variables == payload.vars
        response_bindings == payload.bindings
        rows == [i \in DOMAIN response_bindings |->
                    _get_binding_pairs(variables, response_bindings[i])]
    IN IF BodyError(payload.shape).err # "none"
       THEN [err |-> BodyError(payload.shape).err, rows |-> <<>>,
             named |-> BodyError(payload.shape).named]
       ELSE IF \E i \in DOMAIN rows : \E var \in DOMAIN rows[i] :
              rows[i][var].kind = "AssertionError"
       THEN [err |-> "AssertionError", rows |-> <<>>, named |-> None]
       ELSE [err |-> "none", rows |-> rows, named |-> None]

\* ------------------------------------------------------------------------
\* converters.py: the boolean converter
\* ------------------------------------------------------------------------
\* json.JSONDecodeError, which response.json() raises, is a ValueError;
\* KeyError is a LookupError
IsValueError(err) == err \in {"ValueError", "JSONDecodeError"}

\* _convert_ask: response.json()["boolean"]. The body that is not JSON is
\* b"NOT JSON", for which json.loads reports that it expects a value; the
\* message of a KeyError is the repr of the key.
_convert_ask(payload) ==
    IF ~payload.json
    THEN [err |-> "JSONDecodeError",
          msg |-> "Expecting value: line 1 column 1 (char 0)", value |-> FALSE]
    ELSE IF "boolean" \notin DOMAIN payload.fields
    THEN [err |-> "KeyError", msg |-> "'boolean'", value |-> FALSE]
    ELSE [err |-> "none", msg |-> "", value |-> payload.fields["boolean"]]

\* ------------------------------------------------------------------------
\* converters.py: the graph converter
\* ------------------------------------------------------------------------
\* A content-type header is the sequence of its tokens, ";" and " " being
\* tokens of their own; the content of a response is the name of the RDF
\* serialisation its bytes are written in, or "html".
RECURSIVE SplitFirst(_, _)
\* str.split(sep)[0]: what comes before the first separator
SplitFirst(s, sep) ==
    IF s = <<>> \/ Head(s) = sep THEN <<>>
    ELSE <<Head(s)>> \o SplitFirst(Tail(s), sep)

RECURSIVE Strip(_)
\* str.strip(): without the blanks at either end
Strip(s) ==
    IF s = <<>> THEN <<>>
    ELSE IF Head(s) = " " THEN Strip(Tail(s))
    ELSE IF s[Len(s)] = " " THEN Strip(SubSeq(s, 1, Len(s) - 1))
    ELSE s

\* the string of a token sequence that is one token long
Joined(s) == IF s = <<>> THEN "" ELSE IF Len(s) = 1 THEN s[1] ELSE s

\* the parsers registered with rdflib under a MIME type, by serialisation
RegisteredParsers ==
    [k \in {"turtle", "text/turtle", "xml", "application/rdf+xml", "nt",
             "application/n-triples", "json-ld", "application/ld+json"} |->
        CASE k \in {"turtle", "text/turtle"} -> "turtle"
          [] k \in {"xml", "application/rdf+xml"} -> "rdfxml"
          [] k \in {"nt", "application/n-triples"} -> "ntriples"
          [] k \in {"json-ld", "application/ld+json"} -> "jsonld"]

\* rdflib's Graph.parse(data, format): without a format it tries Turtle; a
\* format no parser is registered for is a PluginException; bytes that are
\* not in the format are the parser's syntax error
GraphParse(content, format) ==
    LET guessed == format = None
        fmt == IF guessed THEN "turtle" ELSE format
    IN IF fmt \notin DOMAIN RegisteredParsers
       THEN [err |-> "PluginException", format |-> fmt]
       ELSE IF RegisteredParsers[fmt] # content
       THEN [err |-> IF guessed THEN "ParserError" ELSE "BadSyntax", format |-> fmt]
       ELSE [err |-> "none", format |-> fmt]

\* _convert_graph: the format is the header's media type without its
\* parameters, or None without a content-type header
_convert_graph(headers, content) ==
    LET _format == IF headers = None THEN None
                   ELSE Joined(Strip(SplitFirst(headers, ";")))
    IN GraphParse(content, _format)

\* ------------------------------------------------------------------------
\* The endpoint and the transport (httpx)
\* ------------------------------------------------------------------------
Statuses == {200, 302}

\* a call that does not check the status
NeverRaisesForStatus(status) == FALSE

\* httpx.Response.raise_for_status raises unless the status is 2xx
RaisesForStatus(status) == ~(200 <= status /\ status <= 299)

\* the endpoint answers a request with the result of the text it was sent
Response(text, status) == [kind |-> "Response", status |-> status, content |-> text]

\* ------------------------------------------------------------------------
\* State
\* ------------------------------------------------------------------------
VARIABLES
    clients,    \* the httpx clients: origin and closed flag of each handle
    _client,    \* ClientManager._client: a handle or NoHandle
    _aclient,   \* ClientManager._aclient
    inWith,     \* the caller is inside `with facade`
    inAWith,    \* the caller is inside `async with facade`
    calls,      \* number of operations started so far
    last,       \* the single call that ran last
    stream,     \* the streaming call
    batch,      \* the batch call
    params,     \* a QueryOperationParameters under construction
    conv,       \* a Select response under conversion
    ask,        \* an Ask response under conversion
    pcall,      \* a call made with the parse settings
    body,       \* the request data of an operation and its form encoding
    graph,      \* a Construct or Describe response under conversion
    hooks,      \* the event hooks of a supplied client
    modes       \* one request made through the blocking and the non-blocking variant

vars == <<clients, _client, _aclient, inWith, inAWith, calls, last, stream, batch,
          params, conv, ask, pcall, body, graph, hooks, modes>>

\* the state of the facade, and the state outside it
facade == <<clients, _client, _aclient, inWith, inAWith, calls, last, stream, batch>>
pure == <<params, conv, ask, pcall, body, graph, hooks, modes>>

\* Handles. A slot of the manager holds at most one client of its kind for
\* the life of the facade; a client the manager creates for one operation is
\* local to that operation.
SyncClient == 1
AsyncClient == 2
CallClient == 3
StreamClient == 4
BatchClient == 5
\* the client of the i-th of several aquery calls awaited together
TaskClient(i) == BatchClient + i
Handles == {SyncClient, AsyncClient, CallClient, StreamClient, BatchClient} \cup ({TaskClient(i) : i \in 1..MaxBatch})

IsAsync(op) == op \in {"aquery", "aupdate"}
\* only the blocking call is taken for a query
IsQuerySyncOnly(op) == op = "query"

IsQuery(op) == op \in {"query", "aquery"}

Absent == [origin |-> "absent", closed |-> FALSE]
NewClient(origin) == [origin |-> origin, closed |-> FALSE]

\* ClientManager.client/aclient read the slot of their kind
Slot(async) == IF async THEN _aclient ELSE _client

\* ClientManager._get_client/_get_aclient: the slot's handle, or a new client
\* (h names the new client)
GetClient(cs, slot, h) ==
    IF slot = NoHandle
    THEN [clients |-> [cs EXCEPT ![h] = NewClient("facade")], h |-> h]
    ELSE [clients |-> cs, h |-> slot]

\* httpx.Client.close / AsyncClient.aclose
Close(cs, h) == [cs EXCEPT ![h].closed = TRUE]

NoCall ==
    [op |-> None, text |-> None, convert |-> FALSE, fmt |-> None, status |-> 0,
     handle |-> NoHandle, created |-> FALSE, sent |-> 0, outcome |-> None,
     converted |-> FALSE, warned |-> FALSE, result |-> NoResult,
     pending |-> FALSE]

NoStream ==
    [phase |-> "none", async |-> FALSE, handle |-> NoHandle, created |-> FALSE,
     connOpen |-> FALSE, left |-> 0, yielded |-> <<>>, warned |-> FALSE,
     outcome |-> None]

NoBatch ==
    [phase |-> "none", op |-> None, handle |-> NoHandle, created |-> FALSE,
     convert |-> FALSE, fmt |-> None, inputs |-> <<>>, tasks |-> <<>>,
     order |-> <<>>, ahead |-> {}, sent |-> 0, warned |-> 0, closes |-> 0,
     outcome |-> None,
     results |-> <<>>]

NoParams ==
    [built |-> FALSE, query |-> None, convert |-> FALSE, fmt |-> None,
     out |-> [err |-> "none", msg |-> "", accept |-> None, query_type |-> None],
     selected |-> FALSE, converter |-> None]

NoGraph ==
    [given |-> FALSE, done |-> FALSE, headers |-> None, content |-> None,
     out |-> [err |-> "none", format |-> None]]

NoHooks ==
    [given |-> FALSE, is_async |-> FALSE, gets |-> 0,
     own |-> [request |-> <<>>, response |-> <<>>],
     event_hooks |-> [request |-> <<>>, response |-> <<>>]]


NoModes ==
    [given |-> FALSE, kind |-> None, text |-> None, other |-> None, convert |-> FALSE,
     fmt |-> None, status |-> 0, chunks |-> 0,
     blocking |-> [done |-> FALSE], nonblocking |-> [done |-> FALSE]]

NoConv ==
    [done |-> FALSE,
     payload |-> [shape |-> "ok", vars |-> <<>>, bindings |-> <<>>],
     out |-> [err |-> "none", rows |-> <<>>, named |-> None]]

NoAsk ==
    [given |-> FALSE, done |-> FALSE, payload |-> [json |-> FALSE, fields |-> <<>>],
     out |-> [err |-> "none", msg |-> "", value |-> FALSE]]

NoPCall ==
    [done |-> FALSE, op |-> None,
     wrapper_parse |-> [given |-> FALSE, value |-> FALSE],
     method_parse |-> [given |-> FALSE, value |-> FALSE],
     query |-> [tag |-> None, text |-> None], status |-> 0,
     out |-> [outcome |-> None, sent |-> 0, query_type |-> None]]

NoBody ==
    [done |-> FALSE, built |-> FALSE, op |-> None, kwargs |-> <<>>, err |-> "none",
     data |-> <<>>, encoded |-> <<>>]

\* last, stream and batch describe the operation of their kind that started
\* most recently: when an operation starts, the records of the operations
\* that have ended are cleared, and the clients that were local to them are
\* no longer tracked. A stream that has not ended is kept. One single call is
\* followed at a time: an operation starts when no aquery/aupdate is awaiting
\* its response (concurrent requests are those of a batch).
Observed(st) ==
    IF st.phase \in {"awaiting", "open", "closing", "leaving"} THEN st ELSE NoStream

Forget(cs, st) ==
    [h \in Handles |->
        IF \/ h \in {CallClient, BatchClient} \cup ({TaskClient(i) : i \in 1..MaxBatch})
           \/ (h = StreamClient /\ Observed(st) = NoStream)
        THEN Absent ELSE cs[h]]

\* SPARQLWrapper.__init__: the caller may supply a client, an aclient, or both
Init ==
    \E sc \in BOOLEAN, sa \in BOOLEAN :
        /\ clients = [h \in Handles |->
                         IF (h = SyncClient /\ sc) \/ (h = AsyncClient /\ sa)
                         THEN NewClient("caller") ELSE Absent]
        /\ _client = IF sc THEN SyncClient ELSE NoHandle
        /\ _aclient = IF sa THEN AsyncClient ELSE NoHandle
        /\ inWith = FALSE
        /\ inAWith = FALSE
        /\ calls = 0
        /\ last = NoCall
        /\ stream = NoStream
        /\ batch = NoBatch
        /\ params = NoParams
        /\ conv = NoConv
        /\ ask = NoAsk
        /\ pcall = NoPCall
        /\ body = NoBody
        /\ graph = NoGraph
        /\ hooks = NoHooks
        /\ modes = NoModes

\* ------------------------------------------------------------------------
\* Context-manager protocol of the facade
\* ------------------------------------------------------------------------
\* SPARQLWrapper.__enter__: the slot is bound to the manager's client
Enter ==
    /\ batch.phase # "running"
    /\ ~inWith
    /\ LET g == GetClient(clients, _client, SyncClient)
       IN /\ clients' = g.clients
          /\ _client' = g.h
    /\ inWith' = TRUE
    /\ UNCHANGED pure
    /\ UNCHANGED <<_aclient, inAWith, calls, last, stream, batch>>

\* SPARQLWrapper.__exit__: the manager's client is closed
Exit ==
    /\ batch.phase # "running"
    /\ inWith
    /\ LET g == GetClient(clients, _client, SyncClient)
       IN clients' = Close(g.clients, g.h)
    /\ inWith' = FALSE
    /\ UNCHANGED pure
    /\ UNCHANGED <<_client, _aclient, inAWith, calls, last, stream, batch>>

\* SPARQLWrapper.__aenter__
AEnter ==
    /\ batch.phase # "running"
    /\ ~inAWith
    /\ LET g == GetClient(clients, _aclient, AsyncClient)
       IN /\ clients' = g.clients
          /\ _aclient' = g.h
    /\ inAWith' = TRUE
    /\ UNCHANGED pure
    /\ UNCHANGED <<_client, inWith, calls, last, stream, batch>>

\* SPARQLWrapper.__aexit__: the client is closed when aclose is called, and
\* the await of aclose may suspend the coroutine before the block is left;
\* the loop then resumes it.
AExit ==
    /\ batch.phase # "running"
    /\ inAWith
    /\ LET g == GetClient(clients, _aclient, AsyncClient)
       IN clients' = Close(g.clients, g.h)
    /\ inAWith' \in BOOLEAN
    /\ UNCHANGED pure
    /\ UNCHANGED <<_client, _aclient, inWith, calls, last, stream, batch>>

\* ------------------------------------------------------------------------
\* ClientManager.context / acontext
\* ------------------------------------------------------------------------
\* ContextExit that closes the handle whoever holds it
ContextExitClosing(cs, slot, h) ==
    [clients |-> Close(cs, h), warned |-> FALSE, closes |-> 1]

\* ContextExit without the warning
ContextExitSilent(cs, slot, h) ==
    IF slot = NoHandle
    THEN [clients |-> Close(cs, h), warned |-> FALSE, closes |-> 1]
    ELSE [clients |-> cs, warned |-> FALSE, closes |-> 0]

\* The code after the yield, run when the with block ends normally: a handle
\* the manager created is closed, a handle held in the slot is warned about.
\* The slot is read when the block ends. closes counts the calls of the
\* handle's close.
ContextExit(cs, slot, h) ==
    IF slot = NoHandle
    THEN [clients |-> Close(cs, h), warned |-> FALSE, closes |-> 1]
    ELSE [clients |-> cs, warned |-> TRUE, closes |-> 0]

\* An exception (or GeneratorExit) thrown into the generator at the yield: the
\* yield is not guarded, so nothing after it runs.
ContextThrow(cs, slot, h) == [clients |-> cs, warned |-> FALSE, closes |-> 0]

\* ------------------------------------------------------------------------
\* Single calls: query, aquery, update, aupdate
\* ------------------------------------------------------------------------
\* the inputs the facade's operations are driven with
UpdateTexts == {"Insert", "Delete"}
BatchTexts == {"SelectQuery", "ConstructQuery"}

\* the value a successful call returns
CallResult(op, convert, p, response) ==
    IF IsQuery(op) /\ convert
    THEN [kind |-> converter(p.query_type), of |-> response]
    ELSE response

\* The body of a single call up to the post: the parameters are built first;
\* then the with block is entered and the request is posted (httpx refuses to
\* send on a closed client). `leave` says how the with block is left; "await"
\* is the request on its way.
CallSend(p, closed) ==
    IF p.err # "none"
    THEN [outcome |-> p.err, entered |-> FALSE, sent |-> 0, leave |-> "none"]
    ELSE IF closed
    THEN [outcome |-> "RuntimeError", entered |-> TRUE, sent |-> 0, leave |-> "throw"]
    ELSE [outcome |-> None, entered |-> TRUE, sent |-> 1, leave |-> "await"]

\* The body of a single call from the response on: raise_for_status runs
\* inside the with block. `lost` is the transport failing to deliver the
\* response, which can happen when the client was closed under the request.
CallReceive(status, lost) ==
    IF lost
    THEN [outcome |-> "TransportError", entered |-> TRUE, sent |-> 1,
          leave |-> "throw"]
    ELSE IF RaisesForStatus(status)
    THEN [outcome |-> "HTTPStatusError", entered |-> TRUE, sent |-> 1,
          leave |-> "throw"]
    ELSE [outcome |-> "ok", entered |-> TRUE, sent |-> 1, leave |-> "exit"]

\* The body of query/aquery/update/aupdate as control flow, from the
\* parameters to the end of the with block
CallFlow(p, closed, status) ==
    LET s == CallSend(p, closed)
    IN IF s.leave = "await" THEN CallReceive(status, FALSE) ELSE s

\* the parameters of a single call
CallParameters(op, text, convert, fmt) ==
    IF IsQuery(op)
    THEN QueryOperationParameters(text, convert, fmt)
    ELSE UpdateOperationParameters(text)

\* A call that entered its with block leaves it, as f says, on handle h of
\* the clients cs: the manager's code after the yield reads the slot as it is
\* then.
CallEnds(call, p, f, cs, slot, h, status) ==
    LET x == IF f.leave = "exit"
             THEN ContextExit(cs, slot, h)
             ELSE ContextThrow(cs, slot, h)
        answered == f.outcome \in {"ok", "HTTPStatusError"}
    IN /\ clients' = x.clients
       /\ last' = [call EXCEPT
                      !.outcome = f.outcome,
                      !.sent = f.sent,
                      !.pending = FALSE,
                      !.status = IF answered THEN status ELSE 0,
                      !.warned = x.warned,
                      !.converted = (f.outcome = "ok" /\ IsQuery(call.op)
                                     /\ call.convert),
                      !.result = IF f.outcome = "ok"
                                 THEN CallResult(call.op, call.convert, p,
                                                 Response(call.text, status))
                                 ELSE NoResult]

\* query and update: nothing else runs between the post and the end of the
\* with block
SingleCall(op, text, convert, fmt, status) ==
    /\ ~IsAsync(op)
    /\ batch.phase # "running"
    /\ ~last.pending
    /\ calls < MaxCalls
    /\ calls' = calls + 1
    /\ LET p == CallParameters(op, text, convert, fmt)
           slot == Slot(FALSE)
           cs == Forget(clients, stream)
           g == GetClient(cs, slot, CallClient)
           f == CallFlow(p, g.clients[g.h].closed, status)
           base == [NoCall EXCEPT !.op = op, !.text = text, !.convert = convert,
                                  !.fmt = fmt]
       IN IF ~f.entered
          THEN /\ last' = [base EXCEPT !.outcome = f.outcome]
               /\ clients' = cs
          ELSE CallEnds([base EXCEPT !.handle = g.h, !.created = (slot = NoHandle)],
                        p, f, g.clients, slot, g.h, status)
    /\ stream' = Observed(stream)
    /\ batch' = NoBatch
    /\ UNCHANGED pure
    /\ UNCHANGED <<_client, _aclient, inWith, inAWith>>

\* aquery and aupdate up to `await aclient.post(...)`: the parameters are
\* built, the client is taken from the manager and the request is posted;
\* the coroutine is then suspended until the response arrives.
AsyncCallSend(op, text, convert, fmt) ==
    /\ IsAsync(op)
    /\ batch.phase # "running"
    /\ ~last.pending
    /\ calls < MaxCalls
    /\ calls' = calls + 1
    /\ LET p == CallParameters(op, text, convert, fmt)
           slot == Slot(TRUE)
           cs == Forget(clients, stream)
           g == GetClient(cs, slot, CallClient)
           f == CallSend(p, g.clients[g.h].closed)
           base == [NoCall EXCEPT !.op = op, !.text = text, !.convert = convert,
                                  !.fmt = fmt]
           used == [base EXCEPT !.handle = g.h, !.created = (slot = NoHandle)]
       IN IF ~f.entered
          THEN /\ last' = [base EXCEPT !.outcome = f.outcome]
               /\ clients' = cs
          ELSE IF f.leave = "await"
          THEN /\ last' = [used EXCEPT !.sent = f.sent, !.pending = TRUE]
               /\ clients' = g.clients
          ELSE CallEnds(used, p, f, g.clients, slot, g.h, 0)
    /\ stream' = Observed(stream)
    /\ batch' = NoBatch
    /\ UNCHANGED pure
    /\ UNCHANGED <<_client, _aclient, inWith, inAWith>>

\* aquery and aupdate after the await: the response has arrived (or the
\* transport has failed, the client having been closed meanwhile), the
\* status is checked and the with block is left. The manager reads its slot
\* now, not when the client was taken. Closing a client of its own it awaits
\* aclose, which closes the client and may suspend the call once more
\* (pending with the status known) before it returns.
AsyncCallReceive ==
    /\ last.pending
    /\ LET p == CallParameters(last.op, last.text, last.convert, last.fmt)
       IN \/ /\ last.status = 0
             /\ \E status \in Statuses, lost \in BOOLEAN, suspended \in BOOLEAN :
                   /\ lost => clients[last.handle].closed
                   /\ LET f == CallReceive(status, lost)
                          x == ContextExit(clients, Slot(TRUE), last.handle)
                      IN IF suspended
                         THEN /\ f.leave = "exit"
                              /\ x.closes > 0
                              /\ clients' = x.clients
                              /\ last' = [last EXCEPT !.status = status]
                         ELSE CallEnds(last, p, f, clients, Slot(TRUE),
                                       last.handle, status)
          \/ /\ last.status # 0
             /\ CallEnds(last, p, CallReceive(last.status, FALSE), clients,
                         NoHandle, last.handle, last.status)
    /\ UNCHANGED pure
    /\ UNCHANGED <<_client, _aclient, inWith, inAWith, calls, stream, batch>>

\* query, and aquery up to its await
Query ==
    \E text \in {"SelectQuery", "ConstructQuery", "Invalid"}, convert \in BOOLEAN,
       fmt \in {None, "csv"} :
        \/ \E status \in Statuses : SingleCall("query", text, convert, fmt, status)
        \/ AsyncCallSend("aquery", text, convert, fmt)

\* update, and aupdate up to its await
Update ==
    \E text \in (UpdateTexts \cup {"Invalid"}) :
        \/ \E status \in Statuses : SingleCall("update", text, FALSE, None, status)
        \/ AsyncCallSend("aupdate", text, FALSE, None)

\* ------------------------------------------------------------------------
\* Streaming calls: query_stream, aquery_stream (generators)
\* ------------------------------------------------------------------------
\* The manager's with block of stream st ends normally: a handle the manager
\* created is closed, a handle held in the slot is warned about. In
\* aquery_stream the close is awaited: the client is closed, and the
\* generator may be suspended ("leaving") before it ends.
StreamEnds(st, cs, slot) ==
    LET x == ContextExit(cs, slot, st.handle)
    IN /\ clients' = x.clients
       /\ \/ stream' = [st EXCEPT !.phase = "done", !.connOpen = FALSE,
                                  !.outcome = "ok", !.warned = x.warned]
          \/ /\ st.async
             /\ x.closes > 0
             /\ stream' = [st EXCEPT !.phase = "leaving", !.connOpen = FALSE]

\* The response of stream st is at its end: the response's with block ends,
\* then the manager's. In aquery_stream the response's close is awaited, and
\* the generator may be suspended there ("closing").
ResponseEnds(st, cs, slot) ==
    \/ StreamEnds(st, cs, slot)
    \/ /\ st.async
       /\ clients' = cs
       /\ stream' = [st EXCEPT !.phase = "closing", !.connOpen = FALSE]

\* The response of a stream has arrived on the handle of st: the status is
\* checked (the response's own with block closes the response when it
\* raises) and the first chunk, if any, is yielded; a response without chunks
\* ends the stream. The chunks of a response are numbered from 1; yielded is
\* what the consumer has got.
StreamResponse(st, cs, slot, status, n) ==
    IF RaisesForStatus(status)
    THEN /\ stream' = [st EXCEPT !.phase = "failed", !.outcome = "HTTPStatusError"]
         /\ clients' = ContextThrow(cs, slot, st.handle).clients
    ELSE IF n = 0
    THEN ResponseEnds(st, cs, slot)
    ELSE /\ clients' = cs
         /\ stream' = [st EXCEPT !.phase = "open", !.connOpen = TRUE,
                                 !.left = n - 1, !.yielded = <<1>>]

\* The first next() of query_stream: the parameters are built (convert is
\* not passed and defaults to None, which is false where it is tested), the
\* with blocks are entered and the response is received.
StreamStart(text, fmt, status, n) ==
    /\ Observed(stream) = NoStream
    /\ batch.phase # "running"
    /\ ~last.pending
    /\ calls < MaxCalls
    /\ calls' = calls + 1
    /\ LET p == QueryOperationParameters(text, FALSE, fmt)
           slot == Slot(FALSE)
           cs == Forget(clients, NoStream)
           g == GetClient(cs, slot, StreamClient)
           used == [NoStream EXCEPT !.handle = g.h, !.created = (slot = NoHandle)]
       IN IF p.err # "none"
          THEN /\ stream' = [NoStream EXCEPT !.phase = "failed", !.outcome = p.err]
               /\ clients' = cs
          ELSE IF g.clients[g.h].closed
          THEN /\ stream' = [used EXCEPT !.phase = "failed",
                                         !.outcome = "RuntimeError"]
               /\ clients' = ContextThrow(g.clients, slot, g.h).clients
          ELSE StreamResponse(used, g.clients, slot, status, n)
    /\ last' = NoCall
    /\ batch' = NoBatch
    /\ UNCHANGED pure
    /\ UNCHANGED <<_client, _aclient, inWith, inAWith>>

\* The first anext() of aquery_stream up to the await of the response: the
\* parameters are built, the client is taken from the manager and the
\* request is sent.
AsyncStreamSend(text, fmt) ==
    /\ Observed(stream) = NoStream
    /\ batch.phase # "running"
    /\ ~last.pending
    /\ calls < MaxCalls
    /\ calls' = calls + 1
    /\ LET p == QueryOperationParameters(text, FALSE, fmt)
           slot == Slot(TRUE)
           cs == Forget(clients, NoStream)
           g == GetClient(cs, slot, StreamClient)
           base == [NoStream EXCEPT !.async = TRUE]
           used == [base EXCEPT !.handle = g.h, !.created = (slot = NoHandle)]
       IN IF p.err # "none"
          THEN /\ stream' = [base EXCEPT !.phase = "failed", !.outcome = p.err]
               /\ clients' = cs
          ELSE IF g.clients[g.h].closed
          THEN /\ stream' = [used EXCEPT !.phase = "failed",
                                         !.outcome = "RuntimeError"]
               /\ clients' = ContextThrow(g.clients, slot, g.h).clients
          ELSE /\ stream' = [used EXCEPT !.phase = "awaiting"]
               /\ clients' = g.clients
    /\ last' = NoCall
    /\ batch' = NoBatch
    /\ UNCHANGED pure
    /\ UNCHANGED <<_client, _aclient, inWith, inAWith>>

\* The first anext() of aquery_stream after the await: the response has
\* arrived, or the transport has failed, the client having been closed
\* meanwhile. The manager reads its slot when the stream ends.
AsyncStreamReceive ==
    /\ stream.phase = "awaiting"
    /\ \E status \in Statuses, n \in 0..MaxChunks, lost \in BOOLEAN :
          /\ lost => clients[stream.handle].closed
          /\ IF lost
             THEN /\ stream' = [stream EXCEPT !.phase = "failed",
                                              !.outcome = "TransportError"]
                  /\ clients' = ContextThrow(clients, Slot(TRUE),
                                             stream.handle).clients
             ELSE StreamResponse(stream, clients, Slot(TRUE), status, n)
    /\ UNCHANGED pure
    /\ UNCHANGED <<_client, _aclient, inWith, inAWith, calls, last, batch>>

\* A further next(): the next chunk, or the end of the response. Reading
\* the body does not look at the client's state: when the client was closed
\* under the stream, the read goes on if the transport still has the body
\* and fails (`lost`) if closing the client took the connection away.
StreamNext ==
    /\ stream.phase = "open"
    /\ batch.phase # "running"
    /\ \E lost \in BOOLEAN :
          /\ lost => clients[stream.handle].closed
          /\ LET h == stream.handle
                 slot == Slot(stream.async)
             IN IF lost
                THEN /\ stream' = [stream EXCEPT !.phase = "failed",
                                                 !.connOpen = FALSE,
                                                 !.outcome = "TransportError"]
                     /\ clients' = ContextThrow(clients, slot, h).clients
                ELSE IF stream.left > 0
                THEN /\ stream' = [stream EXCEPT
                                      !.left = @ - 1,
                                      !.yielded = Append(@, Len(@) + 1)]
                     /\ UNCHANGED clients
                ELSE ResponseEnds(stream, clients, slot)
    /\ UNCHANGED pure
    /\ UNCHANGED <<_client, _aclient, inWith, inAWith, calls, last, batch>>

\* The caller stops consuming: close()/aclose() raises GeneratorExit at the
\* yield; the response's with block closes the response, the manager's
\* context gets the GeneratorExit thrown in. In aquery_stream the response's
\* close is awaited, and the generator may be suspended there.
StreamClose ==
    /\ stream.phase = "open"
    /\ batch.phase # "running"
    /\ \/ /\ stream' = [stream EXCEPT !.phase = "closed", !.connOpen = FALSE,
                                      !.outcome = "GeneratorExit"]
          /\ clients' = ContextThrow(clients, Slot(stream.async),
                                     stream.handle).clients
       \/ /\ stream.async
          /\ stream' = [stream EXCEPT !.phase = "closing", !.connOpen = FALSE,
                                      !.outcome = "GeneratorExit"]
          /\ UNCHANGED clients
    /\ UNCHANGED pure
    /\ UNCHANGED <<_client, _aclient, inWith, inAWith, calls, last, batch>>

\* The loop resumes aquery_stream where an awaited close suspended it: after
\* the response's close the manager's with block ends, or gets the
\* GeneratorExit thrown in; after the client's close the generator ends.
StreamResume ==
    /\ stream.phase \in {"closing", "leaving"}
    /\ batch.phase # "running"
    /\ IF stream.phase = "leaving"
       THEN /\ stream' = [stream EXCEPT !.phase = "done", !.outcome = "ok"]
            /\ UNCHANGED clients
       ELSE IF stream.outcome = "GeneratorExit"
       THEN /\ stream' = [stream EXCEPT !.phase = "closed"]
            /\ clients' = ContextThrow(clients, Slot(TRUE), stream.handle).clients
       ELSE StreamEnds(stream, clients, Slot(TRUE))
    /\ UNCHANGED pure
    /\ UNCHANGED <<_client, _aclient, inWith, inAWith, calls, last, batch>>

\* the first next() of query_stream, and the first anext() of aquery_stream
\* up to its await
Stream ==
    \E text \in {"SelectQuery", "Invalid"} :
        \/ \E status \in Statuses, n \in 0..MaxChunks :
              StreamStart(text, None, status, n)
        \/ AsyncStreamSend(text, None)

\* ------------------------------------------------------------------------
\* Batch calls: queries, updates
\* ------------------------------------------------------------------------
RECURSIVE SeqsUpTo(_, _)
\* all sequences over S of length at most n
SeqsUpTo(S, n) ==
    IF n = 0 THEN {<<>>}
    ELSE LET shorter == SeqsUpTo(S, n - 1)
         IN shorter \cup {Append(q, x) : q \in {r \in shorter : Len(r) = n - 1}, x \in S}

PendingTask == [state |-> "pending", sent |-> FALSE, err |-> None, result |-> NoResult]

\* queries/updates up to asyncio.run: the component facade is built on the
\* manager's aclient (a new handle when the slot is empty), `async with`
\* binds the component's slot to that handle, and one task per input is
\* created in input order.
BatchStart(op, inputs, convert, fmt) ==
    /\ batch.phase # "running"
    /\ ~last.pending
    /\ stream.phase \notin {"awaiting", "closing", "leaving"}
    /\ calls < MaxCalls
    /\ calls' = calls + 1
    /\ LET g == GetClient(Forget(clients, stream), _aclient, BatchClient)
       IN /\ clients' = g.clients
          /\ batch' = [NoBatch EXCEPT
                          !.phase = "running", !.op = op, !.handle = g.h,
                          !.created = (_aclient = NoHandle),
                          !.convert = convert, !.fmt = fmt, !.inputs = inputs,
                          !.tasks = [i \in 1..Len(inputs) |-> PendingTask]]
    /\ last' = NoCall
    /\ stream' = Observed(stream)
    /\ UNCHANGED pure
    /\ UNCHANGED <<_client, _aclient, inWith, inAWith>>

\* asyncio.TaskGroup: the done callback of the first task that fails aborts
\* the group, which cancels every task that has not finished. A cancelled
\* task is at its await of the post, inside the with block of the manager,
\* which does nothing when the CancelledError is thrown in, or at the
\* manager's await of the close of a client of its own.
GroupAbort(tasks) ==
    [j \in DOMAIN tasks |->
        IF tasks[j].state \in {"inflight", "closing"}
        THEN [tasks[j] EXCEPT !.state = "cancelled", !.err = "CancelledError",
                              !.result = NoResult]
        ELSE tasks[j]]

\* the tasks that are suspended: at the await of their post, or at the
\* await of the close of their own client
Inflight(tasks) ==
    {j \in DOMAIN tasks : tasks[j].state \in {"inflight", "closing"}}

\* A task ends with an exception: the loop queues its done callback. The
\* callback of the first failure is the one that aborts the group, and it
\* runs behind what the loop has queued by then: the first steps of the
\* tasks (queued by create_task) and the wakeups of the suspended tasks
\* whose responses have arrived (ahead).
TaskFailed(b, i, err, ahead) ==
    [b EXCEPT !.tasks[i].state = "failed",
              !.tasks[i].err = err,
              !.ahead = IF \E j \in DOMAIN b.tasks : b.tasks[j].state = "failed"
                        THEN @ ELSE ahead]

\* The call a task runs, the handle it posts on and the slot its manager
\* reads: a task of queries/updates runs aquery/aupdate of the component,
\* whose slot holds the shared handle; one of several aquery calls of the
\* facade itself gets the client of the facade's slot, or one of its own.
TaskOp(b) == IF b.op = "updates" THEN "aupdate" ELSE "aquery"
TaskHandle(b, i) ==
    IF b.op # "aquery" THEN b.handle
    ELSE IF _aclient = NoHandle THEN TaskClient(i) ELSE _aclient

\* aquery/aupdate after the await of the post, in task i of batch b, cs
\* being the clients: the status is checked, the manager's context ends (a
\* slot that holds the handle makes it warn), and the task's result is the
\* response or its conversion. A status error leaves the context by the
\* exception. A manager that closes a client of its own awaits the close:
\* the client is closed, and the task may be suspended once more
\* ("closing"), its next wakeup queued behind an abort already queued.
TaskAnswered(b, cs, i, status) ==
    IF RaisesForStatus(status)
    THEN /\ clients' = ContextThrow(cs, NoHandle, TaskHandle(b, i)).clients
         /\ \E ahead \in SUBSET Inflight(b.tasks) :
               batch' = TaskFailed(b, i, "HTTPStatusError", ahead \ {i})
    ELSE LET x == ContextExit(cs, IF b.op = "aquery" THEN _aclient ELSE b.handle,
                              TaskHandle(b, i))
             p == CallParameters(TaskOp(b), b.inputs[i], b.convert, b.fmt)
             result == CallResult(TaskOp(b), b.convert, p,
                                  Response(b.inputs[i], status))
         IN /\ clients' = x.clients
            /\ \/ batch' = [b EXCEPT
                               !.tasks[i].state = "done",
                               !.tasks[i].result = result,
                               !.order = Append(@, i),
                               !.warned = @ + (IF x.warned THEN 1 ELSE 0),
                               !.closes = @ + (IF TaskHandle(b, i) = b.handle
                                               THEN x.closes ELSE 0)]
               \/ /\ x.closes > 0
                  /\ batch' = [b EXCEPT !.tasks[i].state = "closing",
                                        !.tasks[i].result = result,
                                        !.ahead = @ \ {i}]

\* The first step of a task: aquery/aupdate builds the parameters, enters
\* the manager's context and posts. create_task has scheduled every task,
\* so the event loop runs the first step of each in input order, also when
\* an earlier one has failed. The step ends with the exception of the
\* parameters or of the send on a closed client, or suspended at the await
\* of the post, or, when the transport answers inside the post, with the
\* call's own end.
TaskStart(i) ==
    /\ batch.phase = "running"
    /\ i \in DOMAIN batch.tasks
    /\ batch.tasks[i].state = "pending"
    /\ \A j \in 1..(i - 1) : batch.tasks[j].state # "pending"
    /\ LET p == CallParameters(TaskOp(batch), batch.inputs[i], batch.convert,
                               batch.fmt)
           cs == IF batch.op = "aquery"
                 THEN GetClient(clients, _aclient, TaskClient(i)).clients
                 ELSE clients
           f == CallSend(p, cs[TaskHandle(batch, i)].closed)
           posted == [batch EXCEPT !.tasks[i].state = "inflight",
                                   !.tasks[i].sent = TRUE,
                                   !.sent = @ + 1]
       IN IF f.leave = "await"
          THEN \/ /\ batch' = posted
                  /\ clients' = cs
               \/ \E status \in Statuses : TaskAnswered(posted, cs, i, status)
          ELSE /\ \E ahead \in SUBSET Inflight(batch.tasks) :
                     batch' = TaskFailed(batch, i, f.outcome, ahead)
               /\ clients' = IF f.entered THEN cs ELSE clients
    /\ UNCHANGED pure
    /\ UNCHANGED <<_client, _aclient, inWith, inAWith, calls, last, stream>>

\* The response of a suspended task's request has arrived, or the close of
\* its client has returned, and the loop wakes the task, every task having
\* run its first step. Once a task has failed, only the tasks whose wakeups
\* were queued ahead of the abort are woken.
TaskFinish(i, status) ==
    /\ batch.phase = "running"
    /\ i \in DOMAIN batch.tasks
    /\ batch.tasks[i].state \in {"inflight", "closing"}
    /\ \A j \in DOMAIN batch.tasks : batch.tasks[j].state # "pending"
    /\ (\E j \in DOMAIN batch.tasks : batch.tasks[j].state = "failed") =>
           i \in batch.ahead
    /\ IF batch.tasks[i].state = "inflight"
       THEN TaskAnswered(batch, clients, i, status)
       ELSE /\ batch' = [batch EXCEPT !.tasks[i].state = "done",
                                      !.order = Append(@, i)]
            /\ UNCHANGED clients
    /\ UNCHANGED pure
    /\ UNCHANGED <<_client, _aclient, inWith, inAWith, calls, last, stream>>

\* The done callback of the first task that failed runs, behind the first
\* steps and the wakeups that were queued ahead of it: the tasks that are
\* still suspended are cancelled.
TaskGroupAbort ==
    /\ batch.phase = "running"
    /\ \E j \in DOMAIN batch.tasks : batch.tasks[j].state = "failed"
    /\ \A j \in DOMAIN batch.tasks : batch.tasks[j].state # "pending"
    /\ Inflight(batch.tasks) # {}
    /\ Inflight(batch.tasks) \cap batch.ahead = {}
    /\ batch' = [batch EXCEPT !.tasks = GroupAbort(@)]
    /\ UNCHANGED pure
    /\ UNCHANGED <<clients, _client, _aclient, inWith, inAWith, calls, last, stream>>

\* the results in the order in which the tasks completed
BatchResultsByCompletion(tasks, order) ==
    [i \in DOMAIN tasks |-> tasks[order[i]].result]

\* map(asyncio.Task.result, tasks): the results in the order of the tasks
\* list, which is the order of the inputs
BatchResults(tasks, order) == [i \in DOMAIN tasks |-> tasks[i].result]

\* a join that swallows the failures of its tasks
BatchOutcomeSwallowed(tasks) == "ok"

\* asyncio.TaskGroup.__aexit__: the group raises when a task has failed
BatchOutcome(tasks) ==
    IF \E i \in DOMAIN tasks : tasks[i].state = "failed"
    THEN "ExceptionGroup" ELSE "ok"

\* Every task has finished: the task group raises if a task failed, the
\* component's __aexit__ closes the shared handle (aquery calls awaited
\* together have no component), and asyncio.run returns the results or
\* raises.
BatchFinish ==
    /\ batch.phase = "running"
    /\ \A i \in DOMAIN batch.tasks :
          batch.tasks[i].state \in {"done", "failed", "cancelled"}
    /\ clients' = IF batch.op = "aquery" THEN clients
                  ELSE Close(clients, batch.handle)
    /\ LET outcome == BatchOutcome(batch.tasks)
       IN batch' = [batch EXCEPT
                       !.phase = "done",
                       !.closes = @ + (IF batch.op = "aquery" THEN 0 ELSE 1),
                       !.outcome = outcome,
                       !.results = IF outcome = "ok"
                                   THEN BatchResults(batch.tasks, batch.order)
                                   ELSE <<>>]
    /\ UNCHANGED pure
    /\ UNCHANGED <<_client, _aclient, inWith, inAWith, calls, last, stream>>


Queries ==
    \E inputs \in SeqsUpTo(BatchTexts, MaxBatch),
       o \in {[convert |-> TRUE, fmt |-> None], [convert |-> TRUE, fmt |-> "csv"]} :
        BatchStart("queries", inputs, o.convert, o.fmt)

Updates ==
    \E inputs \in (SeqsUpTo(UpdateTexts, MaxBatch)) :
        BatchStart("updates", inputs, FALSE, None)

TaskStep ==
    \/ \E i \in 1..MaxBatch :
          \/ TaskStart(i)
          \/ \E status \in Statuses : TaskFinish(i, status)
    \/ TaskGroupAbort

\* ------------------------------------------------------------------------
\* The operation-parameter builder on its own
\* ------------------------------------------------------------------------
Formats ==
    {None, "", "json", "xml", "csv", "tsv", "turtle", "ntriples", "json-ld",
     "application/json", "application/sparql-results+json", "text/csv",
     "text/turtle", "application/x-unknown"}

FacadeIdle ==
    /\ clients = [h \in Handles |-> Absent]
    /\ _client = NoHandle
    /\ _aclient = NoHandle
    /\ inWith = FALSE
    /\ inAWith = FALSE
    /\ calls = 0
    /\ last = NoCall
    /\ stream = NoStream
    /\ batch = NoBatch

InitParams ==
    /\ FacadeIdle
    /\ graph = NoGraph
    /\ hooks = NoHooks
    /\ modes = NoModes
    /\ conv = NoConv
    /\ ask = NoAsk
    /\ pcall = NoPCall
    /\ body = NoBody
    /\ \E query \in QueryTexts, convert \in BOOLEAN, fmt \in Formats :
          params = [NoParams EXCEPT !.query = query, !.convert = convert,
                                    !.fmt = fmt]

\* QueryOperationParameters(query, convert, response_format)
BuildParams ==
    /\ ~params.built
    /\ params' = [params EXCEPT
                     !.built = TRUE,
                     !.out = QueryOperationParameters(params.query, params.convert,
                                                      params.fmt)]
    /\ UNCHANGED facade
    /\ UNCHANGED <<conv, ask, pcall, body, graph, hooks, modes>>

\* QueryOperationParameters.converter, read from built parameters
SelectConverter ==
    /\ params.built
    /\ params.out.err = "none"
    /\ ~params.selected
    /\ params' = [params EXCEPT
                     !.selected = TRUE,
                     !.converter = converter(params.out.query_type)]
    /\ UNCHANGED facade
    /\ UNCHANGED <<conv, ask, pcall, body, graph, hooks, modes>>

NextParams == BuildParams \/ SelectConverter

SpecParams == InitParams /\ [][NextParams]_vars

\* ------------------------------------------------------------------------
\* The parse setting and pre-tagged queries
\* ------------------------------------------------------------------------
\* An argument of a call is given with a value or left out. A keyword that
\* the signature of the callee does not have is a TypeError of the call:
\* neither SPARQLWrapper.__init__ nor query/aquery has a parameter parse.
ParseArguments == {[given |-> FALSE, value |-> FALSE]} \cup [given : {TRUE}, value : BOOLEAN]

\* the endpoint answers text that is not SPARQL with 400 Bad Request
EndpointStatuses(text) == IF text = "Invalid" THEN {400} ELSE Statuses

\* a query is a text; a tagged query (SelectQuery(text), ...) is a str whose
\* tag nothing reads
QueryValues == [tag : QueryTypes \cup {None}, text : QueryTexts]

InitParse ==
    /\ FacadeIdle
    /\ graph = NoGraph
    /\ hooks = NoHooks
    /\ modes = NoModes
    /\ params = NoParams
    /\ conv = NoConv
    /\ ask = NoAsk
    /\ body = NoBody
    /\ \E op \in {"query", "aquery"}, wrapper_parse \in ParseArguments,
          method_parse \in ParseArguments, query \in QueryValues :
          \E status \in EndpointStatuses(query.text) :
              pcall = [NoPCall EXCEPT !.op = op, !.wrapper_parse = wrapper_parse,
                                      !.method_parse = method_parse,
                                      !.query = query, !.status = status]

\* SPARQLWrapper(sparql_endpoint=..., parse=wrapper_parse) followed by
\* query/aquery(query=..., parse=method_parse), either parse left out or
\* given, convert and response_format left at their defaults: the
\* constructor or the call rejects the keyword; without it
\* QueryOperationParameters parses the text, whatever the query's tag.
ParseCall ==
    /\ ~pcall.done
    /\ pcall.op # None
    /\ LET p == QueryOperationParameters(pcall.query.text, FALSE, None)
           f == CallFlow(p, FALSE, pcall.status)
       IN pcall' = [pcall EXCEPT
                       !.done = TRUE,
                       !.out = IF \/ pcall.wrapper_parse.given
                                  \/ pcall.method_parse.given
                               THEN [outcome |-> "TypeError", sent |-> 0,
                                     query_type |-> None]
                               ELSE [outcome |-> f.outcome, sent |-> f.sent,
                                     query_type |-> p.query_type]]
    /\ UNCHANGED facade
    /\ UNCHANGED <<params, conv, ask, body, graph, hooks, modes>>

NextParse == ParseCall

SpecParse == InitParse /\ [][NextParse]_vars

\* ------------------------------------------------------------------------
\* The request data on its own
\* ------------------------------------------------------------------------
MaxUris == 2
Uris == {"https://named.graph", "https://othernamed.graph"}
GraphValues ==
    {NoneValue} \cup {Str(u) : u \in Uris} \cup {List(q) : q \in SeqsUpTo(Uris, MaxUris)}

InitData ==
    /\ FacadeIdle
    /\ graph = NoGraph
    /\ hooks = NoHooks
    /\ modes = NoModes
    /\ params = NoParams
    /\ conv = NoConv
    /\ ask = NoAsk
    /\ pcall = NoPCall
    /\ \E op \in {"query", "update"}, text \in {"", "select * where {?s ?p ?o}"},
          version \in {NoneValue, Str("1.2")},
          g1 \in GraphValues, g2 \in GraphValues :
          body = [NoBody EXCEPT
                     !.op = op,
                     !.kwargs =
                         IF op = "query"
                         THEN <<[k |-> kw_query, v |-> Str(text)],
                                [k |-> kw_version, v |-> version],
                                [k |-> kw_default_graph_uri, v |-> g1],
                                [k |-> kw_named_graph_uri, v |-> g2]>>
                         ELSE <<[k |-> kw_update, v |-> Str(text)],
                                [k |-> kw_version, v |-> version],
                                [k |-> kw_using_graph_uri, v |-> g1],
                                [k |-> kw_using_named_graph_uri, v |-> g2]>>]

\* prepareQuery(query).algebra.name on the texts of the request data: the
\* empty text does not parse
prepareQuery(text) ==
    IF text = "select * where {?s ?p ?o}" THEN "SelectQuery" ELSE "Invalid"

\* The parameters of the operation are built and their data is posted.
\* QueryOperationParameters.__init__ parses the query before it builds the
\* data, so a text that does not parse leaves no data and no request;
\* UpdateOperationParameters.__init__ does not look at the text.
BuildBody ==
    /\ ~body.done
    /\ body.op # None
    /\ LET a == body.kwargs
           p == IF body.op = "query"
                THEN QueryOperationParameters(prepareQuery(a[1].v.s), FALSE, None)
                ELSE UpdateOperationParameters(a[1].v.s)
           data == IF body.op = "query"
                   THEN QueryData(a[1].v, a[2].v, a[3].v, a[4].v)
                   ELSE UpdateData(a[1].v, a[2].v, a[3].v, a[4].v)
       IN IF p.err # "none"
          THEN body' = [body EXCEPT !.done = TRUE, !.err = p.err]
          ELSE body' = [body EXCEPT !.done = TRUE, !.built = TRUE, !.data = data,
                                    !.encoded = FormEncode(data)]
    /\ UNCHANGED facade
    /\ UNCHANGED <<params, conv, ask, pcall, graph, hooks, modes>>

NextData == BuildBody

SpecData == InitData /\ [][NextData]_vars

\* ------------------------------------------------------------------------
\* The binding-set converter on its own
\* ------------------------------------------------------------------------
MaxVars == 2
VarNames == {"x", "y"}
\* a literal term with a datatype
Typed(value, datatype) == [type |-> "literal", value |-> value, datatype |-> datatype]

\* the terms of the rows of a payload of several rows
RowTerms ==
    {Typed("1", XsdInteger), Typed("2", XsdInteger), Typed("3", XsdInteger),
     Typed("4", XsdInteger), [type |-> "uri", value |-> "v"]}

\* the terms of a payload of one row: those, an integer in another lexical
\* form and one that is no integer, a decimal, a date, a year, a literal of
\* a datatype of the caller's, a plain literal, a blank node, an RDF-star
\* triple
Terms ==
    RowTerms \cup
    {Typed("04", XsdInteger), Typed("w", XsdInteger),
     Typed("2.2", "http://www.w3.org/2001/XMLSchema#decimal"),
     Typed("2024-01-01", "http://www.w3.org/2001/XMLSchema#date"),
     Typed("2024", "http://www.w3.org/2001/XMLSchema#gYear"),
     Typed("w", "http://example.org/datatype"),
     [type |-> "literal", value |-> "v"], [type |-> "bnode", value |-> "v"],
     [type |-> "triple", value |-> "v"]}

\* the shapes of a body that is not a Select result
MalformedShapes ==
    {"not_json", "array", "no_head", "null_head", "no_vars", "no_results",
     "no_bindings"}

\* a binding has a term for some of the variable names
Bindings(terms) == UNION {[D -> terms] : D \in SUBSET VarNames}

\* results.bindings: one row of any terms, or up to MaxRows rows
ResultBindings ==
    {<<binding>> : binding \in Bindings(Terms)} \cup
    SeqsUpTo(Bindings(RowTerms), MaxRows)

\* the bodies of Ask responses: bytes that are not JSON, or a JSON object
\* with some of the keys "boolean" and "answer"
AskPayloads ==
    {[json |-> FALSE, fields |-> <<>>]} \cup
    {[json |-> TRUE, fields |-> f] :
        f \in UNION {[D -> BOOLEAN] : D \in SUBSET {"boolean", "answer"}}}

\* the content-type headers of graph responses: none, a media type with or
\* without parameters, one the codec has no parser for
GraphHeaders ==
    {None,
     <<"text/turtle">>,
     <<"text/turtle", ";", " ", "charset=utf-8">>,
     <<"application/rdf+xml", " ", ";", "charset=utf-8">>,
     <<"text/html", ";", "charset=utf-8">>,
     <<"application/x-unknown">>}


\* the response to convert is that of a Select, an Ask or a graph query
InitConv ==
    /\ FacadeIdle
    /\ hooks = NoHooks
    /\ modes = NoModes
    /\ params = NoParams
    /\ pcall = NoPCall
    /\ body = NoBody
    /\ \/ /\ ask = NoAsk
          /\ graph = NoGraph
          /\ \E variables \in SeqsUpTo(VarNames, MaxVars),
                bindings \in ResultBindings :
                conv = [NoConv EXCEPT !.payload = [shape |-> "ok",
                                                   vars |-> variables,
                                                   bindings |-> bindings]]
       \/ /\ ask = NoAsk
          /\ graph = NoGraph
          /\ \E shape \in MalformedShapes :
                conv = [NoConv EXCEPT !.payload.shape = shape]
       \/ /\ conv = NoConv
          /\ graph = NoGraph
          /\ \E payload \in AskPayloads :
                ask = [NoAsk EXCEPT !.given = TRUE, !.payload = payload]
       \/ /\ conv = NoConv
          /\ ask = NoAsk
          /\ \E headers \in GraphHeaders, content \in {"turtle", "rdfxml", "html"} :
                graph = [NoGraph EXCEPT !.given = TRUE, !.headers = headers,
                                        !.content = content]

\* _convert_bindings(response)
Convert ==
    /\ ~ask.given
    /\ ~graph.given
    /\ ~conv.done
    /\ conv' = [conv EXCEPT !.done = TRUE, !.out = _convert_bindings(conv.payload)]
    /\ UNCHANGED facade
    /\ UNCHANGED <<params, ask, pcall, body, graph, hooks, modes>>

\* _convert_ask(response)
ConvertAsk ==
    /\ ask.given
    /\ ~ask.done
    /\ ask' = [ask EXCEPT !.done = TRUE, !.out = _convert_ask(ask.payload)]
    /\ UNCHANGED facade
    /\ UNCHANGED <<params, conv, pcall, body, graph, hooks, modes>>

\* _convert_graph(response)
ConvertGraph ==
    /\ graph.given
    /\ ~graph.done
    /\ graph' = [graph EXCEPT !.done = TRUE,
                              !.out = _convert_graph(graph.headers, graph.content)]
    /\ UNCHANGED facade
    /\ UNCHANGED <<params, conv, ask, pcall, body, hooks, modes>>

NextConv == Convert \/ ConvertAsk \/ ConvertGraph

SpecConv == InitConv /\ [][NextConv]_vars

\* ------------------------------------------------------------------------
\* One operation through its blocking and its non-blocking variant, each on
\* a facade of its own with no client supplied, against an endpoint that
\* answers every request alike
\* ------------------------------------------------------------------------
\* client.post(data=params.data, headers=params.headers): the request
RequestOf(text, p) ==
    [data |-> FormEncode(QueryData(Str(text), NoneValue, NoneValue, NoneValue)),
     accept |-> p.accept,
     content_type |-> "application/x-www-form-urlencoded"]

\* Several aquery calls of the facade awaited together, in a task group of
\* the caller's: one task per input, created in input order, each running
\* aquery of the facade itself.
AQueries(inputs, convert, fmt) ==
    /\ batch.phase # "running"
    /\ ~last.pending
    /\ stream.phase \notin {"awaiting", "closing", "leaving"}
    /\ calls < MaxCalls
    /\ calls' = calls + 1
    /\ clients' = Forget(clients, stream)
    /\ batch' = [NoBatch EXCEPT
                    !.phase = "running", !.op = "aquery", !.convert = convert,
                    !.fmt = fmt, !.inputs = inputs,
                    !.tasks = [i \in 1..Len(inputs) |-> PendingTask]]
    /\ last' = NoCall
    /\ stream' = Observed(stream)
    /\ UNCHANGED pure
    /\ UNCHANGED <<_client, _aclient, inWith, inAWith>>


InitModes ==
    /\ FacadeIdle
    /\ params = NoParams
    /\ conv = NoConv
    /\ ask = NoAsk
    /\ pcall = NoPCall
    /\ body = NoBody
    /\ graph = NoGraph
    /\ hooks = NoHooks
    /\ \E kind \in {"call", "stream", "batch"}, text \in QueryTexts,
          other \in BatchTexts, convert \in BOOLEAN, fmt \in {None, "xml", "csv"},
          status \in Statuses, n \in 0..MaxChunks :
          modes = [NoModes EXCEPT !.given = TRUE, !.kind = kind, !.text = text,
                                  !.other = other, !.convert = convert,
                                  !.fmt = fmt, !.status = status, !.chunks = n]

\* The endpoint answers every request of the step with the status and the
\* number of chunks of modes.
EndpointAnswers ==
    /\ last'.status \in {0, modes.status}
    /\ stream'.phase \in {"open", "closing", "leaving", "done"} =>
          /\ ~RaisesForStatus(modes.status)
          /\ Len(stream'.yielded) + stream'.left = modes.chunks
    /\ stream'.outcome = "HTTPStatusError" => RaisesForStatus(modes.status)
    /\ \A i \in DOMAIN batch'.tasks :
          /\ batch'.tasks[i].state \in {"closing", "done"} =>
                LET r == batch'.tasks[i].result
                IN (IF r.kind = "Response" THEN r.status ELSE r.of.status)
                      = modes.status
          /\ batch'.tasks[i].err = "HTTPStatusError" => RaisesForStatus(modes.status)

\* the operation of modes has come to its end
Finished ==
    CASE modes.kind = "call" -> last.op # None /\ ~last.pending
      [] modes.kind = "stream" -> stream.phase \in {"done", "failed"}
      [] modes.kind = "batch" -> batch.phase = "done"

\* What the caller has of the operation: of a call the request that left,
\* the outcome and the result; of a stream the chunks it yielded; of the
\* requests made together the outcome and the results.
Observation ==
    CASE modes.kind = "call" ->
           [outcome |-> last.outcome,
            request |-> IF last.sent > 0
                        THEN RequestOf(last.text,
                                       CallParameters(last.op, last.text,
                                                      last.convert, last.fmt))
                        ELSE NoResult,
            converted |-> last.converted,
            result |-> last.result]
      [] modes.kind = "stream" ->
           [outcome |-> stream.outcome, chunks |-> stream.yielded]
      [] modes.kind = "batch" ->
           [outcome |-> batch.outcome, results |-> batch.results]

\* query, query_stream consumed to its end, queries
RunBlocking ==
    /\ modes.given
    /\ ~modes.blocking.done
    /\ \/ /\ modes.kind = "call"
          /\ SingleCall("query", modes.text, modes.convert, modes.fmt, modes.status)
       \/ /\ modes.kind = "stream"
          /\ \/ StreamStart(modes.text, modes.fmt, modes.status, modes.chunks)
             \/ StreamNext
       \/ /\ modes.kind = "batch"
          /\ \/ BatchStart("queries", <<modes.text, modes.other>>, modes.convert,
                           modes.fmt)
             \/ TaskStep
             \/ BatchFinish
    /\ EndpointAnswers

\* aquery, aquery_stream consumed to its end, aquery calls awaited together
RunNonBlocking ==
    /\ modes.blocking.done
    /\ ~modes.nonblocking.done
    /\ \/ /\ modes.kind = "call"
          /\ \/ AsyncCallSend("aquery", modes.text, modes.convert, modes.fmt)
             \/ AsyncCallReceive
       \/ /\ modes.kind = "stream"
          /\ \/ AsyncStreamSend(modes.text, modes.fmt)
             \/ AsyncStreamReceive
             \/ StreamNext
             \/ StreamResume
       \/ /\ modes.kind = "batch"
          /\ \/ AQueries(<<modes.text, modes.other>>, modes.convert, modes.fmt)
             \/ TaskStep
             \/ BatchFinish
    /\ EndpointAnswers

\* The operation has ended: the caller keeps what it has of it, and the
\* next variant starts on a facade of its own.
Keep ==
    /\ modes.given
    /\ Finished
    /\ \/ /\ ~modes.blocking.done
          /\ modes' = [modes EXCEPT !.blocking = [done |-> TRUE, seen |-> Observation]]
       \/ /\ modes.blocking.done
          /\ ~modes.nonblocking.done
          /\ modes' = [modes EXCEPT
                          !.nonblocking = [done |-> TRUE, seen |-> Observation]]
    /\ clients' = [h \in Handles |-> Absent]
    /\ _client' = NoHandle
    /\ _aclient' = NoHandle
    /\ inWith' = FALSE
    /\ inAWith' = FALSE
    /\ calls' = 0
    /\ last' = NoCall
    /\ stream' = NoStream
    /\ batch' = NoBatch
    /\ UNCHANGED <<params, conv, ask, pcall, body, graph, hooks>>

NextModes == RunBlocking \/ RunNonBlocking \/ Keep

SpecModes == InitModes /\ [][NextModes]_vars

\* ------------------------------------------------------------------------
\* client_manager.py: the logging hooks of a client the caller supplied
\* ------------------------------------------------------------------------
MaxHooks == 2
MaxGets == 3

\* the hooks of logging_hooks.py for a client and for an async client
LoggingHooks(is_async) ==
    IF is_async THEN [request |-> "alog_request", response |-> "alog_response"]
    ELSE [request |-> "log_request", response |-> "log_response"]

\* _add_event_hook that appends whatever the list holds
_add_event_hook_always(event_hooks, hook_type, hook) ==
    [event_hooks EXCEPT ![hook_type] = Append(@, hook)]

\* ClientManager._add_event_hook: the hook is appended to the client's list
\* of its type unless the list holds it
_add_event_hook(event_hooks, hook_type, hook) ==
    IF hook \in Range(event_hooks[hook_type]) THEN event_hooks
    ELSE [event_hooks EXCEPT ![hook_type] = Append(@, hook)]

\* _get_client/_get_aclient on a client that was supplied: the request hook,
\* then the response hook
AddLoggingHooks(event_hooks, is_async) ==
    _add_event_hook(
        _add_event_hook(event_hooks, "request", LoggingHooks(is_async).request),
        "response", LoggingHooks(is_async).response)

\* the number of positions of a list that hold the hook
CountOf(list, hook) == Cardinality({i \in DOMAIN list : list[i] = hook})

\* the hooks of the caller, and the lists a supplied client may come with: a
\* logging hook is in a list at most once (the client was used before)
HookLists(logging) ==
    {list \in SeqsUpTo({"hook_a", "hook_b"} \cup {logging}, MaxHooks) : CountOf(list, logging) <= 1}

InitHooks ==
    /\ FacadeIdle
    /\ params = NoParams
    /\ conv = NoConv
    /\ ask = NoAsk
    /\ pcall = NoPCall
    /\ body = NoBody
    /\ graph = NoGraph
    /\ modes = NoModes
    /\ \E is_async \in BOOLEAN :
          \E request \in HookLists(LoggingHooks(is_async).request),
             response \in HookLists(LoggingHooks(is_async).response) :
             LET given == [request |-> request, response |-> response]
             IN hooks = [NoHooks EXCEPT !.given = TRUE, !.is_async = is_async,
                                        !.own = given, !.event_hooks = given]

\* ClientManager.client/aclient: one read of the supplied client, as every
\* call and every __enter__ makes
GetSuppliedClient ==
    /\ hooks.given
    /\ hooks.gets < MaxGets
    /\ hooks' = [hooks EXCEPT
                    !.gets = @ + 1,
                    !.event_hooks = AddLoggingHooks(@, hooks.is_async)]
    /\ UNCHANGED facade
    /\ UNCHANGED <<params, conv, ask, pcall, body, graph, modes>>

NextHooks == GetSuppliedClient

SpecHooks == InitHooks /\ [][NextHooks]_vars

Next ==
    \/ Enter \/ Exit \/ AEnter \/ AExit
    \/ Query \/ Update \/ AsyncCallReceive
    \/ Stream \/ AsyncStreamReceive \/ StreamNext \/ StreamClose \/ StreamResume
    \/ Queries \/ Updates \/ TaskStep \/ BatchFinish

Spec == Init /\ [][Next]_vars

\* ------------------------------------------------------------------------
\* Properties
\* ------------------------------------------------------------------------
\* C1: a handle the caller supplied at construction is never closed by the
\* facade, whatever operations and context-manager steps are taken.
SuppliedHandleNeverClosed ==
    \A h \in Handles : clients[h].origin = "caller" => ~clients[h].closed

\* C2: a handle a single call created itself is closed when the call has left
\* its scope, whether it returned or raised.
OwnHandleClosedOnLeave ==
    (last.op # None /\ last.created /\ ~last.pending) =>
        clients[last.handle].closed

\* the text a result of the endpoint answers
AnsweredText(r) == IF r.kind = "Response" THEN r.content ELSE r.of.content

\* C3: a batch that succeeds returns one result per input, the i-th result
\* being the answer to the i-th input, whatever the completion order was.
BatchOrderPreserved ==
    (batch.phase = "done" /\ batch.outcome = "ok") =>
        /\ Len(batch.results) = Len(batch.inputs)
        /\ \A i \in DOMAIN batch.inputs :
              AnsweredText(batch.results[i]) = batch.inputs[i]

BatchOutOfOrderDone ==
    /\ batch.phase = "done"
    /\ batch.outcome = "ok"
    /\ Len(batch.inputs) >= 2
    /\ batch.inputs[1] # batch.inputs[2]
    /\ batch.order[1] # 1

\* C4: a batch with a failed request raises and returns no result, not even
\* those of the requests that completed.
BatchAllOrNothing ==
    (batch.phase = "done" /\ \E i \in DOMAIN batch.tasks :
                                batch.tasks[i].state = "failed") =>
        /\ batch.outcome # "ok"
        /\ batch.results = <<>>

BatchFailedAfterSuccess ==
    /\ batch.phase = "done"
    /\ \E i \in DOMAIN batch.tasks : batch.tasks[i].state = "failed"
    /\ \E i \in DOMAIN batch.tasks : batch.tasks[i].state = "done"

\* C5: when a call fails with a configuration error, single or batch, no
\* request has been sent and no handle has been created or used.
ConfigErrorNoRequestNoHandle ==
    /\ last.outcome = "ValueError" => (last.sent = 0 /\ last.handle = NoHandle)
    /\ (\E i \in DOMAIN batch.tasks : batch.tasks[i].err = "ValueError") =>
           (batch.sent = 0 /\ batch.handle = NoHandle)

\* C6: building the parameters raises the ValueError with the exact message
\* exactly when convert is set, the query is a Select or Ask and the format
\* does not resolve to one of the two JSON MIME types.
ConvertRequiresJson ==
    params.built =>
        ((/\ params.out.err = "ValueError"
          /\ params.out.msg =
               "JSON response format required for convert=True on SELECT and ASK query results.")
         <=>
         (/\ params.convert
          /\ params.query \in {"SelectQuery", "AskQuery"}
          /\ params.fmt \notin {None, "", "json", "application/json",
                                "application/sparql-results+json"}))

ConvertCsvRejected ==
    /\ params.built
    /\ params.query = "SelectQuery"
    /\ params.convert
    /\ params.fmt = "csv"
    /\ params.out.err = "ValueError"

\* C7: a call that succeeds through a handle the caller supplied has warned
\* that the handle is not managed and has returned its result; likewise a
\* stream read to its end.
SuppliedHandleWarns ==
    /\ (/\ last.outcome = "ok"
        /\ clients[last.handle].origin = "caller") =>
           (last.warned /\ last.result # NoResult)
    /\ (/\ stream.phase = "done"
        /\ stream.handle # NoHandle
        /\ clients[stream.handle].origin = "caller") => stream.warned

SuppliedHandleCallOk ==
    /\ last.outcome = "ok"
    /\ clients[last.handle].origin = "caller"
    /\ last.warned

\* C8: when the caller stops consuming a stream early, the connection is
\* released and a handle created for the stream is closed; while the stream
\* is being iterated the connection is open.
StreamCancelReleases ==
    /\ stream.phase = "closed" =>
           /\ ~stream.connOpen
           /\ stream.created => clients[stream.handle].closed
    /\ stream.phase = "open" => stream.connOpen

\* C9: on a response that is not 2xx a single call raises the status error:
\* no conversion, no result, and exactly one request sent (status is 0 as
\* long as no response has arrived).
StatusErrorPropagates ==
    (last.sent > 0 /\ last.status # 0
       /\ ~(200 <= last.status /\ last.status <= 299)) =>
        /\ last.outcome = "HTTPStatusError"
        /\ ~last.converted
        /\ last.result = NoResult
        /\ last.sent = 1

StatusErrorOnConvert ==
    /\ last.outcome = "HTTPStatusError"
    /\ last.convert
    /\ last.sent = 1

\* C10: for any Select payload the conversion yields one row per
\* payload row, every row's key set is the set of declared variables, and a
\* declared variable without a term in a row is None in that row.
RowsForAnyPayload ==
    (conv.done /\ conv.payload.shape = "ok") =>
        /\ conv.out.err = "none"
        /\ Len(conv.out.rows) = Len(conv.payload.bindings)
        /\ \A i \in DOMAIN conv.out.rows :
              /\ DOMAIN conv.out.rows[i] = Range(conv.payload.vars)
              /\ \A var \in Range(conv.payload.vars) :
                    var \notin DOMAIN conv.payload.bindings[i] =>
                        conv.out.rows[i][var] = Unbound

\* the payload of two rows {x: 1, y: 2} and {x: 3, y: 4}
TwoRowsPayload ==
    [shape |-> "ok", vars |-> <<"x", "y">>,
     bindings |-> <<("x" :> Typed("1", XsdInteger)) @@ ("y" :> Typed("2", XsdInteger)),
                    ("x" :> Typed("3", XsdInteger)) @@ ("y" :> Typed("4", XsdInteger))>>]

\* C11: the converted Select result keeps the payload's row order: the i-th
\* row is what the conversion makes of the i-th object of results.bindings
\* taken alone, and the rows {x: 1, y: 2}, {x: 3, y: 4} come out as the
\* integers 1, 2 and 3, 4 in that order.
RowOrderPreserved ==
    (conv.done /\ conv.out.err = "none") =>
        /\ Len(conv.out.rows) = Len(conv.payload.bindings)
        /\ \A i \in DOMAIN conv.payload.bindings :
              LET alone == [conv.payload EXCEPT !.bindings = <<@[i]>>]
              IN /\ i \in DOMAIN conv.out.rows
                 /\ <<conv.out.rows[i]>> = _convert_bindings(alone).rows
        /\ conv.payload = TwoRowsPayload =>
              conv.out.rows = <<("x" :> [kind |-> "int", n |-> 1]) @@
                                ("y" :> [kind |-> "int", n |-> 2]),
                                ("x" :> [kind |-> "int", n |-> 3]) @@
                                ("y" :> [kind |-> "int", n |-> 4])>>

RowsInPayloadOrder ==
    /\ conv.done
    /\ conv.out.err = "none"
    /\ conv.payload = TwoRowsPayload
    /\ Len(conv.out.rows) = 2
    /\ conv.out.rows[1]["x"].n = 1
    /\ conv.out.rows[2]["x"].n = 3

\* C12: the boolean converter returns b for the payload {"boolean": b}; for
\* a JSON payload without the key it fails with a ValueError whose message is
\* "ASK response missing 'boolean' key", which is not the error of a body
\* that is not JSON.
AskMissingKeyNamed ==
    (ask.done /\ ask.payload.json) =>
        IF "boolean" \in DOMAIN ask.payload.fields
        THEN /\ ask.out.err = "none"
             /\ ask.out.value = ask.payload.fields["boolean"]
        ELSE /\ IsValueError(ask.out.err)
             /\ ask.out.msg = "ASK response missing 'boolean' key"
             /\ ask.out.msg # _convert_ask([json |-> FALSE, fields |-> <<>>]).msg

\* C13: the boolean converter fails on a body that is not JSON with a
\* ValueError whose message is "Expected JSON response for ASK query".
AskNotJsonNamed ==
    (ask.done /\ ~ask.payload.json) =>
        /\ IsValueError(ask.out.err)
        /\ ask.out.msg = "Expected JSON response for ASK query"

\* C14: a query or aquery call on text that is not valid SPARQL fails with
\* QueryParseException and sends no request.
InvalidQueryRaisesQueryParseException ==
    (last.op \in {"query", "aquery"} /\ last.text = "Invalid") =>
        /\ last.outcome = "QueryParseException"
        /\ last.sent = 0

\* the parse setting a call is made under: the call's argument when it is
\* given, else the client's, else on
ParseSetting(wrapper_parse, method_parse) ==
    IF method_parse.given THEN method_parse.value
    ELSE IF wrapper_parse.given THEN wrapper_parse.value
    ELSE TRUE

\* C15: with parsing off and a tagged query, the tag is the query's type and
\* the text is not parsed: the request is sent even when the text is not
\* SPARQL, and what the caller gets for the endpoint's rejection is the
\* transport's status error.
TaggedQueryTrusted ==
    (/\ pcall.done
     /\ ~ParseSetting(pcall.wrapper_parse, pcall.method_parse)
     /\ pcall.query.tag # None) =>
        /\ pcall.out.sent = 1
        /\ pcall.out.query_type = pcall.query.tag
        /\ pcall.out.outcome \in {"ok", "HTTPStatusError"}
        /\ pcall.query.text = "Invalid" => pcall.out.outcome = "HTTPStatusError"

\* C16: with parsing off and a query without a tag, the call fails with a
\* ValueError and sends nothing.
UntaggedQueryRejected ==
    (/\ pcall.done
     /\ ~ParseSetting(pcall.wrapper_parse, pcall.method_parse)
     /\ pcall.query.tag = None) =>
        /\ IsValueError(pcall.out.outcome)
        /\ pcall.out.sent = 0

\* C17: text that is not SPARQL is rejected by the parser exactly when the
\* call's parse argument is true, or is not given while the client's setting
\* is true.
PerCallParseOverrides ==
    (pcall.done /\ pcall.query.text = "Invalid") =>
        (pcall.out.outcome = "ParseException"
         <=> ParseSetting(pcall.wrapper_parse, pcall.method_parse))

\* C18: an update or aupdate call on text that is not a valid update fails
\* with UpdateParseException and sends no request.
InvalidUpdateRaisesUpdateParseException ==
    (last.op \in {"update", "aupdate"} /\ last.text = "Invalid") =>
        /\ last.outcome = "UpdateParseException"
        /\ last.sent = 0

\* the name of an option in the SPARQL protocol
ProtocolName(k) ==
    CASE k = kw_query ->
           <<"q", "u", "e", "r", "y">>
      [] k = kw_update ->
           <<"u", "p", "d", "a", "t", "e">>
      [] k = kw_version ->
           <<"v", "e", "r", "s", "i", "o", "n">>
      [] k = kw_default_graph_uri ->
           <<"d", "e", "f", "a", "u", "l", "t", "-", "g", "r", "a", "p", "h", "-", "u", "r", "i">>
      [] k = kw_named_graph_uri ->
           <<"n", "a", "m", "e", "d", "-", "g", "r", "a", "p", "h", "-", "u", "r", "i">>
      [] k = kw_using_graph_uri ->
           <<"u", "s", "i", "n", "g", "-", "g", "r", "a", "p", "h", "-", "u", "r", "i">>
      [] k = kw_using_named_graph_uri ->
           <<"u", "s", "i", "n", "g", "-", "n", "a", "m", "e", "d", "-", "g", "r", "a", "p", "h", "-", "u", "r", "i">>

\* the pairs of the encoded body under one key, in order
Occurrences(encoded, key) == SelectSeq(encoded, LAMBDA pair : pair.k = key)

\* C19 as stated: every option whose value is not None appears in the
\* request body under its protocol name with its value unchanged; an option
\* whose value is None is absent; the text is there under query or update.
EveryGivenOptionInBody ==
    body.built =>
        /\ \A i \in DOMAIN body.kwargs :
              LET o == body.kwargs[i]
                  occ == Occurrences(body.encoded, ProtocolName(o.k))
              IN IF o.v.kind = "None"
                 THEN occ = <<>>
                 ELSE /\ occ # <<>>
                      /\ o.v.kind = "str" => occ = <<[k |-> ProtocolName(o.k), s |-> o.v.s]>>
                      /\ o.v.kind = "list" =>
                            [n \in DOMAIN occ |-> occ[n].s] = o.v.items
        /\ Occurrences(body.encoded,
                       ProtocolName(IF body.op = "query" THEN kw_query ELSE kw_update))
              = <<[k |-> ProtocolName(body.kwargs[1].k), s |-> body.kwargs[1].v.s]>>

\* C19 amended: an option whose value is a string is in the request body as
\* exactly one pair, under its protocol name, with its value unchanged; an
\* option whose value is a list has one pair per element, so an empty list
\* has none; an option whose value is None is in neither the data nor the
\* body; the body holds nothing else, and the text is always there under
\* query or update.
BodyFieldsTranslated ==
    body.built =>
        /\ \A i \in DOMAIN body.kwargs :
              LET o == body.kwargs[i]
                  occ == Occurrences(body.encoded, ProtocolName(o.k))
              IN /\ o.v.kind = "None" =>
                       /\ \A j \in DOMAIN body.data : body.data[j].k # ProtocolName(o.k)
                       /\ occ = <<>>
                 /\ o.v.kind # "None" =>
                       \E j \in DOMAIN body.data :
                           body.data[j] = [k |-> ProtocolName(o.k), v |-> o.v]
                 /\ o.v.kind = "str" => occ = <<[k |-> ProtocolName(o.k), s |-> o.v.s]>>
                 /\ o.v.kind = "list" =>
                       /\ Len(occ) = Len(o.v.items)
                       /\ o.v.items = <<>> => occ = <<>>
        /\ \A n \in DOMAIN body.encoded :
              \E i \in DOMAIN body.kwargs : body.encoded[n].k = ProtocolName(body.kwargs[i].k)
        /\ Len(body.data) <= Len(body.kwargs)
        /\ body.data[1] = [k |-> ProtocolName(IF body.op = "query" THEN kw_query
                                              ELSE kw_update),
                           v |-> body.kwargs[1].v]

NamedGraphTranslatedEmptyListOmitted ==
    /\ body.built
    /\ body.op = "query"
    /\ body.kwargs[2].v = NoneValue
    /\ body.kwargs[3].v = List(<<>>)
    /\ body.kwargs[4].v = Str("https://named.graph")
    /\ Len(body.data) = 3
    /\ Len(body.encoded) = 2
    /\ body.encoded[2] =
          [k |-> <<"n", "a", "m", "e", "d", "-", "g", "r", "a", "p", "h",
                   "-", "u", "r", "i">>,
           s |-> "https://named.graph"]

\* C20: a graph option given as a list of k values is encoded as k pairs
\* under its protocol name, one per element, in the order of the list.
ListEncodedInOrder ==
    body.built =>
        \A i \in DOMAIN body.kwargs :
            LET o == body.kwargs[i]
                occ == Occurrences(body.encoded, ProtocolName(o.k))
            IN o.v.kind = "list" =>
                  /\ Len(occ) = Len(o.v.items)
                  /\ \A n \in DOMAIN occ : occ[n].s = o.v.items[n]

TwoNamedGraphsEncoded ==
    /\ body.built
    /\ body.op = "query"
    /\ body.kwargs[4].v = List(<<"https://named.graph", "https://othernamed.graph">>)
    /\ Len(Occurrences(body.encoded, ProtocolName(kw_named_graph_uri))) = 2

\* C21: with no response format given, building the parameters of a Select or
\* Ask query resolves the MIME type, which is the Accept header, to
\* application/sparql-results+json, and of a Construct or Describe query to
\* text/turtle.
DefaultFormatByType ==
    (params.built /\ params.fmt = None) =>
        /\ params.query \in {"SelectQuery", "AskQuery"} =>
              /\ params.out.err = "none"
              /\ params.out.accept = "application/sparql-results+json"
        /\ params.query \in {"ConstructQuery", "DescribeQuery"} =>
              /\ params.out.err = "none"
              /\ params.out.accept = "text/turtle"

DefaultTurtleResolved ==
    /\ params.built
    /\ params.fmt = None
    /\ params.query = "DescribeQuery"
    /\ params.out.accept = "text/turtle"

\* C22 (as stated): every caller-supplied response format is resolved against
\* the alias table of the query's operation type, an alias to its MIME type
\* and any other value unchanged, and that is the resolved MIME type.
SuppliedFormatAlwaysResolved ==
    (params.built /\ params.fmt # None /\ params.query \in QueryTypes) =>
        LET table == IF params.query \in {"SelectQuery", "AskQuery"}
                     THEN bindings_format_map ELSE graph_format_map
        IN /\ params.out.err = "none"
           /\ params.out.accept =
                 IF params.fmt \in DOMAIN table THEN table[params.fmt]
                 ELSE params.fmt

\* C22 (amended): a non-empty supplied format is resolved against the alias
\* table of the operation type (xml differs per type), any other non-empty
\* value passes through unchanged; the resolved type is the Accept header
\* unless convert is set on a Select or Ask and the resolved type is not a
\* JSON type, which is a ValueError; the empty string resolves as no format.
SuppliedFormatResolved ==
    (params.built /\ params.fmt # None /\ params.query \in QueryTypes) =>
        LET bindings == params.query \in {"SelectQuery", "AskQuery"}
            table == IF bindings THEN bindings_format_map ELSE graph_format_map
            resolved == IF params.fmt = ""
                        THEN (IF bindings THEN "application/sparql-results+json"
                              ELSE "text/turtle")
                        ELSE IF params.fmt \in DOMAIN table
                        THEN table[params.fmt]
                        ELSE params.fmt
        IN /\ IF params.convert /\ bindings /\ resolved \notin JsonMimeTypes
              THEN params.out.err = "ValueError"
              ELSE params.out.err = "none" /\ params.out.accept = resolved
           /\ (params.fmt = "xml" /\ params.out.err = "none") =>
                 params.out.accept = IF bindings
                                     THEN "application/sparql-results+xml"
                                     ELSE "application/rdf+xml"

ForeignAliasPassedThrough ==
    /\ params.built
    /\ params.query = "SelectQuery"
    /\ params.fmt = "turtle"
    /\ params.out.err = "none"
    /\ params.out.accept = "turtle"

\* C23: the converter of built parameters is a function of the operation type
\* alone (Select: binding sets, Ask: boolean, Construct and Describe: graph),
\* whatever the format and the convert option; for a type that is none of the
\* four it is a ValueError, never a converter.
ConverterByType ==
    /\ params.selected =>
          params.converter =
             CASE params.query = "SelectQuery" -> "_convert_bindings"
               [] params.query = "AskQuery" -> "_convert_ask"
               [] params.query = "ConstructQuery" -> "_convert_graph"
               [] params.query = "DescribeQuery" -> "_convert_graph"
    /\ \A other \in {"Invalid", None} : converter(other) = "ValueError"

AskConverterSelected ==
    /\ params.selected
    /\ params.query = "AskQuery"
    /\ params.fmt = "application/json"
    /\ params.converter = "_convert_ask"

\* the content type of the response under conversion is absent, or one the
\* RDF codec has no parser for
GraphFormatUnknown ==
    \/ graph.headers = None
    \/ /\ graph.headers # None
       /\ Joined(Strip(SplitFirst(graph.headers, ";"))) \notin DOMAIN RegisteredParsers

\* C24: converting a graph response whose content type is absent or not
\* recognised by the RDF codec fails with the unknown-format error (the
\* codec's PluginException); no format is guessed.
GraphFormatNeverGuessed ==
    (graph.done /\ GraphFormatUnknown) =>
        /\ graph.out.err = "PluginException"
        /\ graph.out.format # "turtle"

\* the field a body of a malformed shape lacks first, in the order read
MissingField(shape) ==
    CASE shape \in {"array", "no_head"} -> "head"
      [] shape \in {"null_head", "no_vars"} -> "vars"
      [] shape = "no_results" -> "results"
      [] shape = "no_bindings" -> "bindings"
      [] OTHER -> None

\* C25: converting a Select response whose body is not valid JSON or lacks
\* the head.vars or results.bindings structure fails, and when a field is
\* missing the error names that field.
MalformedPayloadNamesField ==
    (conv.done /\ conv.payload.shape \in MalformedShapes) =>
        /\ conv.out.err # "none"
        /\ conv.payload.shape # "not_json" =>
              conv.out.named = MissingField(conv.payload.shape)

\* a row binds a declared variable to a literal of a datatype that has no
\* conversion
UnknownDatatypeBound(payload) ==
    \E i \in DOMAIN payload.bindings :
        \E var \in Range(payload.vars) \cap DOMAIN payload.bindings[i] :
            /\ payload.bindings[i][var].type = "literal"
            /\ Get(payload.bindings[i][var], "datatype") \notin
                   DOMAIN XSDToPython \cup {None}

\* C26: a literal whose datatype is unknown makes the conversion fail with
\* UnsupportedLiteralType; its value is never passed through into a row.
UnknownDatatypeFails ==
    (conv.done /\ conv.payload.shape = "ok" /\ UnknownDatatypeBound(conv.payload)) =>
        /\ conv.out.err # "none"
        /\ conv.out.rows = <<>>

\* C27: for the same query, options and endpoint answer, query and aquery
\* post the same request and end alike, with equal results; query_stream and
\* aquery_stream yield the same chunks in the same order; queries succeeds
\* exactly when aquery calls awaited together all succeed, with the same
\* results in the same order.
ModesEquivalent ==
    (modes.blocking.done /\ modes.nonblocking.done) =>
        modes.blocking.seen = modes.nonblocking.seen

BothModesConverted ==
    /\ modes.blocking.done
    /\ modes.nonblocking.done
    /\ modes.kind = "batch"
    /\ modes.convert
    /\ modes.text # modes.other
    /\ modes.nonblocking.seen.outcome = "ok"
    /\ Len(modes.blocking.seen.results) = 2
    /\ modes.blocking.seen.results[1].kind = "_convert_bindings"

\* C28: whatever context-manager steps and calls came before, a call, a
\* stream or a task of a batch is never handed a handle that has been closed
\* (httpx answers a send on a closed client with a RuntimeError).
CallsUseOpenHandle ==
    /\ last.outcome # "RuntimeError"
    /\ stream.outcome # "RuntimeError"
    /\ \A i \in DOMAIN batch.tasks : batch.tasks[i].err # "RuntimeError"

\* C29: the requests of a batch share one async handle; while the batch runs
\* nothing closes that handle, whatever requests finish or fail, and when
\* the batch has ended, in success or in failure, the handle is closed and
\* was closed once.
BatchHandleClosedOnce ==
    /\ [](batch.phase = "running" => batch.closes = 0)
    /\ [](batch.phase = "done" =>
            /\ batch.closes = 1
            /\ clients[batch.handle].closed
            /\ \A i \in DOMAIN batch.tasks :
                  batch.tasks[i].state \in {"done", "failed", "cancelled"})
    /\ [][(batch.phase = "running" /\ batch'.phase = "running") =>
            /\ batch'.handle = batch.handle
            /\ clients'[batch.handle].closed = clients[batch.handle].closed]_vars

BatchFailedHandleClosed ==
    /\ batch.phase = "done"
    /\ batch.outcome = "ExceptionGroup"
    /\ Len(batch.tasks) = 2
    /\ \E i \in DOMAIN batch.tasks : batch.tasks[i].state = "done"
    /\ batch.created
    /\ batch.closes = 1
    /\ clients[batch.handle].closed

\* what a list holds besides the hook
RECURSIVE Without(_, _)
Without(list, hook) ==
    IF list = <<>> THEN <<>>
    ELSE IF Head(list) = hook THEN Without(Tail(list), hook)
    ELSE <<Head(list)>> \o Without(Tail(list), hook)

\* C30: once a supplied client has been obtained, however often, each of its
\* two hook lists holds the logging hook of its type exactly once, and the
\* hooks the list came with are all there, in their order, before anything
\* that was added.
LoggingHooksOnce ==
    (hooks.given /\ hooks.gets > 0) =>
        \A type \in {"request", "response"} :
            LET logging == LoggingHooks(hooks.is_async)[type]
                now == hooks.event_hooks[type]
                own == hooks.own[type]
            IN /\ CountOf(now, logging) = 1
               /\ Len(now) >= Len(own)
               /\ SubSeq(now, 1, Len(own)) = own
               /\ Without(now, logging) = Without(own, logging)

HooksAfterThreeGets ==
    /\ hooks.given
    /\ hooks.gets = 3
    /\ hooks.own.request = <<"hook_b", "hook_a">>
    /\ hooks.own.response = <<"log_response", "hook_a">>
    /\ hooks.event_hooks.request = <<"hook_b", "hook_a", "log_request">>
    /\ hooks.event_hooks.response = <<"log_response", "hook_a">>

====
